------------------------------ MODULE Spec2Model ------------------------------
(***************************************************************************)
(* The phase controller of the CBT chatbot (src/backend.py, CBTChatbot),   *)
(* called once per user message by the Streamlit loop                      *)
(* (src/streamlit_frontend.py), which catches nothing stream raises.       *)
(*                                                                         *)
(* Python strings are modelled as sequences of one-character strings, so   *)
(* that substring containment, lower-casing, stripping and the regular     *)
(* expression substitution of soften are computed, not assumed.            *)
(* A character that a string of this module cannot hold (a control         *)
(* character other than \t \n \r \f, or one outside ASCII) is written as    *)
(* the string of its code point: "U+2019" is the one character U+2019.     *)
(* The characters of the model are ASCII, U+0080 to U+00FF, the white      *)
(* space of Unicode, and U+0130, U+0131, U+017F, U+0307, U+2019, U+212A.   *)
(***************************************************************************)
EXTENDS Integers, Sequences, FiniteSets

(* Bounds of the model. *)
MaxTurns == 2
MaxLongTurns == 4

(* ------------------------------------------------------------------------ *)
(* Text literals of the program.                                            *)
(* ------------------------------------------------------------------------ *)

TokYes ==
    <<"y", "e", "s">>

TokOkay ==
    <<"o", "k", "a", "y">>

TokSure ==
    <<"s", "u", "r", "e">>

TokWill ==
    <<"w", "i", "l", "l">>

TokGotIt ==
    <<"g", "o", "t", " ", "i", "t">>

TokThanks ==
    <<"t", "h", "a", "n", "k", "s">>

TokNot ==
    <<"n", "o", "t">>

TokDont ==
    <<"d", "o", "n", "'", "t">>

TokDontBare ==
    <<"d", "o", "n", "t">>

TokNo ==
    <<"n", "o">>

TokNah ==
    <<"n", "a", "h">>

TokNothing ==
    <<"n", "o", "t", "h", "i", "n", "g">>

TokElse ==
    <<"e", "l", "s", "e">>

WordExercise ==
    <<"e", "x", "e", "r", "c", "i", "s", "e">>

WordHopeless ==
    <<"h", "o", "p", "e", "l", "e", "s", "s">>

WordDepressed ==
    <<"d", "e", "p", "r", "e", "s", "s", "e", "d">>

WordEmotionallyDrained ==
    <<"e", "m", "o", "t", "i", "o", "n", "a", "l", "l", "y", " ", "d", "r",
      "a", "i", "n", "e", "d">>

WordFeelingLow ==
    <<"f", "e", "e", "l", "i", "n", "g", " ", "l", "o", "w">>

KeyAgenda ==
    <<"a", "g", "e", "n", "d", "a">>

KeyExplore ==
    <<"e", "x", "p", "l", "o", "r", "e">>

KeyExploration ==
    <<"e", "x", "p", "l", "o", "r", "a", "t", "i", "o", "n">>

KeyTechnique ==
    <<"t", "e", "c", "h", "n", "i", "q", "u", "e">>

KeyHomework ==
    <<"h", "o", "m", "e", "w", "o", "r", "k">>

KeyClosing ==
    <<"c", "l", "o", "s", "i", "n", "g">>

WaitingPrompt ==
    <<"F", "e", "e", "l", " ", "f", "r", "e", "e", " ", "t", "o", " ",
      "l", "e", "t", " ", "m", "e", " ", "k", "n", "o", "w", " ", "w",
      "h", "e", "n", " ", "y", "o", "u", "U+2019", "r", "e", " ", "r",
      "e", "a", "d", "y", " ", "t", "o", " ", "t", "r", "y", " ", "t",
      "h", "a", "t", " ", "e", "x", "e", "r", "c", "i", "s", "e", ",",
      " ", "o", "r", " ", "i", "f", " ", "y", "o", "u", "U+2019", "d",
      " ", "l", "i", "k", "e", " ", "t", "o", " ", "e", "x", "p", "l",
      "o", "r", "e", " ", "a", "n", "o", "t", "h", "e", "r", " ", "t",
      "e", "c", "h", "n", "i", "q", "u", "e", ".">>

FallbackPrompt ==
    <<"I", "U+2019", "m", " ", "h", "e", "r", "e", " ", "w", "h", "e",
      "n", "e", "v", "e", "r", " ", "y", "o", "u", "U+2019", "d", " ",
      "l", "i", "k", "e", " ", "t", "o", " ", "c", "o", "n", "t", "i",
      "n", "u", "e", ".">>


(* ------------------------------------------------------------------------ *)
(* Inputs: the texts a user may type (with the softened form of those that  *)
(* hold a trigger word), the replies the phase selector may give, the text  *)
(* a template chain may generate.                                           *)
(* ------------------------------------------------------------------------ *)

TextThanksWillTry ==
    <<"t", "h", "a", "n", "k", "s", ",", " ", "w", "i", "l", "l", " ", "t",
      "r", "y">>

TextNoThanksNotThatExercise ==
    <<"n", "o", " ", "t", "h", "a", "n", "k", "s", ",", " ", "n", "o", "t",
      " ", "t", "h", "a", "t", " ", "e", "x", "e", "r", "c", "i", "s", "e">>

TextHmmNotSure ==
    <<"h", "m", "m", " ", "n", "o", "t", " ", "s", "u", "r", "e">>

TextNoNotThatExercise ==
    <<"N", "o", ",", " ", "n", "o", "t", " ", "t", "h", "a", "t", " ", "e",
      "x", "e", "r", "c", "i", "s", "e">>

TextHmmNotNow ==
    <<"h", "m", "m", " ", "n", "o", "t", " ", "n", "o", "w">>

TextHopelessDepressed ==
    <<"I", " ", "f", "e", "e", "l", " ", "h", "o", "p", "e", "l", "e", "s",
      "s", " ", "a", "n", "d", " ", "d", "e", "p", "r", "e", "s", "s", "e",
      "d">>

TextUpperHopeless ==
    <<"H", "O", "P", "E", "L", "E", "S", "S">>

TextThatExercise ==
    <<"t", "h", "a", "t", " ", "e", "x", "e", "r", "c", "i", "s", "e">>

TextHello ==
    <<"h", "e", "l", "l", "o">>

SoftHopelessDepressed ==
    <<"I", " ", "f", "e", "e", "l", " ", "e", "m", "o", "t", "i", "o", "n",
      "a", "l", "l", "y", " ", "d", "r", "a", "i", "n", "e", "d", " ", "a",
      "n", "d", " ", "f", "e", "e", "l", "i", "n", "g", " ", "l", "o", "w">>

SoftUpperHopeless ==
    <<"e", "m", "o", "t", "i", "o", "n", "a", "l", "l", "y", " ", "d", "r",
      "a", "i", "n", "e", "d">>

ReplyAgenda ==
    <<"a", "g", "e", "n", "d", "a">>

ReplyExplore ==
    <<" ", "E", "x", "p", "l", "o", "r", "e", "\n">>

ReplyExploration ==
    <<"e", "x", "p", "l", "o", "r", "a", "t", "i", "o", "n">>

ReplyTechnique ==
    <<"T", "E", "C", "H", "N", "I", "Q", "U", "E">>

ReplyHomework ==
    <<"h", "o", "m", "e", "w", "o", "r", "k">>

ReplyClosing ==
    <<"C", "l", "o", "s", "i", "n", "g", " ">>

ReplyBanana ==
    <<"b", "a", "n", "a", "n", "a">>

ReplyBlank ==
    <<" ", "U+000B", "\n">>

OutputLetsBegin ==
    <<"L", "e", "t", "'", "s", " ", "b", "e", "g", "i", "n", ".">>

OutputTakeCare ==
    <<"T", "a", "k", "e", " ", "c", "a", "r", "e", ".">>

KeySecret ==
    <<"s", "k", "-", "1">>

Texts ==
    { TextThanksWillTry, TextNoThanksNotThatExercise, TextHmmNotSure,
      TextNoNotThatExercise, TextHmmNotNow, TextHopelessDepressed,
      TextUpperHopeless, TextHello, TextThatExercise }

Replies ==
    { ReplyAgenda, ReplyExplore, ReplyExploration, ReplyTechnique,
      ReplyHomework, ReplyClosing, ReplyBanana, ReplyBlank, <<>> }

Outputs == { OutputLetsBegin, OutputTakeCare }

(* ------------------------------------------------------------------------ *)
(* Python string operations.                                                *)
(* ------------------------------------------------------------------------ *)
(* the characters of the model that str.lower() changes into one other    *)
(* character                                                               *)
UpperToLower ==
    [c \in { "A", "B", "C", "D", "E", "F", "G", "H", "I", "J", "K", "L",
             "M", "N", "O", "P", "Q", "R", "S", "T", "U", "V", "W", "X",
             "Y", "Z", "U+00C0", "U+00C1", "U+00C2", "U+00C3", "U+00C4",
             "U+00C5", "U+00C6", "U+00C7", "U+00C8", "U+00C9", "U+00CA",
             "U+00CB", "U+00CC", "U+00CD", "U+00CE", "U+00CF", "U+00D0",
             "U+00D1", "U+00D2", "U+00D3", "U+00D4", "U+00D5", "U+00D6",
             "U+00D8", "U+00D9", "U+00DA", "U+00DB", "U+00DC", "U+00DD",
             "U+00DE", "U+212A" }
       |-> CASE c = "A" -> "a" [] c = "B" -> "b" [] c = "C" -> "c"
             [] c = "D" -> "d" [] c = "E" -> "e" [] c = "F" -> "f"
             [] c = "G" -> "g" [] c = "H" -> "h" [] c = "I" -> "i"
             [] c = "J" -> "j" [] c = "K" -> "k" [] c = "L" -> "l"
             [] c = "M" -> "m" [] c = "N" -> "n" [] c = "O" -> "o"
             [] c = "P" -> "p" [] c = "Q" -> "q" [] c = "R" -> "r"
             [] c = "S" -> "s" [] c = "T" -> "t" [] c = "U" -> "u"
             [] c = "V" -> "v" [] c = "W" -> "w" [] c = "X" -> "x"
             [] c = "Y" -> "y" [] c = "Z" -> "z" [] c = "U+00C0" -> "U+00E0"
             [] c = "U+00C1" -> "U+00E1" [] c = "U+00C2" -> "U+00E2"
             [] c = "U+00C3" -> "U+00E3" [] c = "U+00C4" -> "U+00E4"
             [] c = "U+00C5" -> "U+00E5" [] c = "U+00C6" -> "U+00E6"
             [] c = "U+00C7" -> "U+00E7" [] c = "U+00C8" -> "U+00E8"
             [] c = "U+00C9" -> "U+00E9" [] c = "U+00CA" -> "U+00EA"
             [] c = "U+00CB" -> "U+00EB" [] c = "U+00CC" -> "U+00EC"
             [] c = "U+00CD" -> "U+00ED" [] c = "U+00CE" -> "U+00EE"
             [] c = "U+00CF" -> "U+00EF" [] c = "U+00D0" -> "U+00F0"
             [] c = "U+00D1" -> "U+00F1" [] c = "U+00D2" -> "U+00F2"
             [] c = "U+00D3" -> "U+00F3" [] c = "U+00D4" -> "U+00F4"
             [] c = "U+00D5" -> "U+00F5" [] c = "U+00D6" -> "U+00F6"
             [] c = "U+00D8" -> "U+00F8" [] c = "U+00D9" -> "U+00F9"
             [] c = "U+00DA" -> "U+00FA" [] c = "U+00DB" -> "U+00FB"
             [] c = "U+00DC" -> "U+00FC" [] c = "U+00DD" -> "U+00FD"
             [] c = "U+00DE" -> "U+00FE" [] c = "U+212A" -> "k"]

LowerChar(c) == IF c \in DOMAIN UpperToLower THEN UpperToLower[c] ELSE c

(* str.lower() of a one-character string: U+0130 becomes two characters *)
LowerString(c) ==
    IF c = "U+0130" THEN << "i", "U+0307" >> ELSE << LowerChar(c) >>

(* str.lower() *)
RECURSIVE lower(_)
lower(s) ==
    IF s = <<>> THEN <<>> ELSE LowerString(Head(s)) \o lower(Tail(s))

(* the characters str.strip() removes: those str.isspace() holds for *)
IsSpace(c) ==
    c \in { "\t", "\n", "U+000B", "\f", "\r", "U+001C", "U+001D", "U+001E",
            "U+001F", " ", "U+0085", "U+00A0", "U+1680", "U+2000", "U+2001",
            "U+2002", "U+2003", "U+2004", "U+2005", "U+2006", "U+2007",
            "U+2008", "U+2009", "U+200A", "U+2028", "U+2029", "U+202F",
            "U+205F", "U+3000" }

(* str.strip(): leading and trailing whitespace removed *)
strip(s) ==
    LET keep == { i \in 1..Len(s) : ~IsSpace(s[i]) }
    IN  IF keep = {} THEN <<>>
        ELSE LET first == CHOOSE i \in keep : \A j \in keep : i <= j
                 last  == CHOOSE i \in keep : \A j \in keep : j <= i
             IN  SubSeq(s, first, last)

(* the character c of the text matches the lower-case pattern character p  *)
(* under re.IGNORECASE: equal once lower-cased, or one of the characters    *)
(* the regular expression engine holds for other cases of p                *)
IgnoreCaseEq(p, c) ==
    \/ LowerChar(c) = p
    \/ p = "s" /\ c = "U+017F"
    \/ p = "i" /\ c \in { "U+0130", "U+0131" }

(* MatchesAt with the case of the text left as it is (re.IGNORECASE lost) *)
MatchesAtCaseSensitive(w, text, i) ==
    /\ i + Len(w) - 1 <= Len(text)
    /\ SubSeq(text, i, i + Len(w) - 1) = w

(* the match of pattern w (a lower-case literal) at position i of text,    *)
(* under re.IGNORECASE                                                      *)
MatchesAt(w, text, i) ==
    /\ i + Len(w) - 1 <= Len(text)
    /\ \A j \in 1..Len(w) : IgnoreCaseEq(w[j], text[i + j - 1])

(* Python's  tok in s  for strings *)
Contains(s, tok) ==
    \E i \in 1..(Len(s) + 1) :
        /\ i + Len(tok) - 1 <= Len(s)
        /\ SubSeq(s, i, i + Len(tok) - 1) = tok

(* re.sub(w, r, text, flags=re.IGNORECASE) for a literal pattern w: the     *)
(* leftmost non-overlapping matches, scanned from position i on            *)
RECURSIVE ReSubFrom(_, _, _, _)
ReSubFrom(w, r, text, i) ==
    IF i > Len(text) THEN <<>>
    ELSE IF MatchesAt(w, text, i)
         THEN r \o ReSubFrom(w, r, text, i + Len(w))
         ELSE <<text[i]>> \o ReSubFrom(w, r, text, i + 1)

re_sub(w, r, text) == ReSubFrom(w, r, text, 1)

(* ------------------------------------------------------------------------ *)
(* CBTChatbot: configuration set by __init__.                               *)
(* ------------------------------------------------------------------------ *)
(* ack_tokens with "thanks" left out *)
ack_tokens_WithoutThanks == << TokYes, TokOkay, TokSure, TokWill, TokGotIt >>

ack_tokens == << TokYes, TokOkay, TokSure, TokWill, TokGotIt, TokThanks >>

decline_tokens ==
    << TokNot, TokDont, TokDontBare, TokNo, TokNah, TokNothing, TokElse >>

(* reps of soften, in the order the dict is iterated *)
reps ==
    << <<WordHopeless, WordEmotionallyDrained>>,
       <<WordDepressed, WordFeelingLow>> >>

RECURSIVE ApplyReps(_, _)
ApplyReps(text, k) ==
    IF k > Len(reps) THEN text
    ELSE ApplyReps(re_sub(reps[k][1], reps[k][2], text), k + 1)

soften(text) == ApplyReps(text, 1)

(* any(tok in low for tok in tokens) *)
AnyTokenIn(tokens, low) ==
    \E k \in 1..Len(tokens) : Contains(low, tokens[k])

(* the mapping dict of stream: classifier reply -> phase *)
MappingKeys ==
    { KeyAgenda, KeyExplore, KeyExploration, KeyTechnique, KeyHomework,
      KeyClosing }

(* mapping with "explore" mapped to itself, which names no phase *)
mappingExploreUnmapped ==
    [k \in MappingKeys |->
        CASE k = KeyAgenda      -> "agenda"
          [] k = KeyExplore     -> "explore"
          [] k = KeyExploration -> "exploration"
          [] k = KeyTechnique   -> "technique"
          [] k = KeyHomework    -> "homework"
          [] k = KeyClosing     -> "closing"]

mapping ==
    [k \in MappingKeys |->
        CASE k = KeyAgenda      -> "agenda"
          [] k = KeyExplore     -> "exploration"
          [] k = KeyExploration -> "exploration"
          [] k = KeyTechnique   -> "technique"
          [] k = KeyHomework    -> "homework"
          [] k = KeyClosing     -> "closing"]

(* ChainOf with the technique branch calling the homework chain *)
ChainOfTechniqueCallsHomework(p) ==
    CASE p = "agenda"      -> "agenda_chain"
      [] p = "exploration" -> "explore_chain"
      [] p = "technique"   -> "homework_chain"
      [] p = "homework"    -> "homework_chain"
      [] p = "closing"     -> "closing_chain"

(* the chain stream dispatches to for each phase *)
ChainOf(p) ==
    CASE p = "agenda"      -> "agenda_chain"
      [] p = "exploration" -> "explore_chain"
      [] p = "technique"   -> "technique_chain"
      [] p = "homework"    -> "homework_chain"
      [] p = "closing"     -> "closing_chain"

(* ------------------------------------------------------------------------ *)
(* State.                                                                   *)
(* ------------------------------------------------------------------------ *)
VARIABLES
    phase,        \* self.phase
    hw_assigned,  \* self.hw_assigned
    memory,       \* self.memory.chat_memory.messages
    pc,           \* where the running call of stream is
    user_raw,     \* the argument of the running call
    u,            \* the softened text
    sel,          \* <<>> or <<the normalised reply of the phase selector>>
    reply,        \* <<>> or <<the raw reply of the phase selector>>
    chain,        \* the template chain being called, or "none"
    calls,        \* the generation calls of the running call, in order
    ret,          \* <<>> or <<the text stream returned>>
    startPhase,   \* self.phase when the running call began
    startHw,      \* self.hw_assigned when the running call began
    resolved,     \* the phase the running call dispatched on, or "none"
    turns,        \* the number of calls of stream so far
    key,          \* os.getenv("OPENAI_API_KEY"): <<>> for None, or <<text>>
    attrs,        \* the attributes __init__ has set on the controller
    homeworkLog   \* how the calls of homework_chain.predict ended
                  \* ("returned", "raised"), with a "left" for the turns
                  \* between them that resolved to another phase

vars ==
    << phase, hw_assigned, memory, pc, user_raw, u, sel, reply, chain, calls,
       ret, startPhase, startHw, resolved, turns, key, attrs, homeworkLog >>

session == << phase, hw_assigned >>
locals == << user_raw, u, startPhase, startHw, turns >>
config == << key, attrs >>

HumanMessage(t) == [role |-> "human", text |-> t]
AIMessage(t) == [role |-> "ai", text |-> t]

(* one generation call: the chain, and the inputs predict is given *)
Call(c) == [chain |-> c, user_input |-> u, history |-> memory]

(* the attributes of a constructed controller *)
Attributes ==
    { "llm", "memory", "phase_selector", "agenda_chain", "explore_chain",
      "technique_chain", "homework_chain", "closing_chain", "phase",
      "hw_assigned", "ack_tokens", "decline_tokens" }

(* the values the environment may give the credential: unset, empty, set *)
Keys == { <<>>, << <<>> >>, << KeySecret >> }

(* KeyMissing with only None taken for a missing credential *)
KeyMissingNoneOnly(k) == k = <<>>

(* not key *)
KeyMissing(k) == IF k = <<>> THEN TRUE ELSE k[1] = <<>>

(* __init__, with the credential present *)
Init ==
    /\ key = << KeySecret >>
    /\ attrs = Attributes
    /\ phase = "agenda"
    /\ hw_assigned = FALSE
    /\ memory = <<>>
    /\ pc = "idle"
    /\ user_raw = <<>>
    /\ u = <<>>
    /\ sel = <<>>
    /\ reply = <<>>
    /\ chain = "none"
    /\ calls = <<>>
    /\ ret = <<>>
    /\ startPhase = "agenda"
    /\ startHw = FALSE
    /\ resolved = "none"
    /\ turns = 0
    /\ homeworkLog = <<>>

(* The process before the frontend has built the controller: the           *)
(* environment holds any of the credential values, no attribute is set.    *)
InitStartup ==
    /\ key \in Keys
    /\ attrs = {}
    /\ phase = "unset"
    /\ hw_assigned = FALSE
    /\ memory = <<>>
    /\ pc = "start"
    /\ user_raw = <<>>
    /\ u = <<>>
    /\ sel = <<>>
    /\ reply = <<>>
    /\ chain = "none"
    /\ calls = <<>>
    /\ ret = <<>>
    /\ startPhase = "unset"
    /\ startHw = FALSE
    /\ resolved = "none"
    /\ turns = 0
    /\ homeworkLog = <<>>

(* CBTChatbot() with the credential present: every attribute is set and the *)
(* frontend keeps the controller in its session state.                      *)
Construct ==
    /\ pc = "start"
    /\ ~KeyMissing(key)
    /\ attrs' = Attributes
    /\ phase' = "agenda"
    /\ hw_assigned' = FALSE
    /\ memory' = <<>>
    /\ startPhase' = "agenda"
    /\ pc' = "idle"
    /\ UNCHANGED << key, user_raw, u, sel, reply, chain, calls, ret, startHw,
                    resolved, turns, homeworkLog >>

(* CBTChatbot() without the credential: ValueError before any attribute is  *)
(* set; the frontend holds no controller and builds one again on its next   *)
(* run.                                                                     *)
ConstructRaise ==
    /\ pc \in { "start", "config_error" }
    /\ KeyMissing(key)
    /\ pc' = "config_error"
    /\ UNCHANGED << session, memory, sel, reply, chain, calls, ret, resolved,
                    locals, config,
                    homeworkLog >>

(* ------------------------------------------------------------------------ *)
(* stream, step by step.                                                    *)
(* ------------------------------------------------------------------------ *)

(* The frontend calls stream(user_input): soften, append to the memory.     *)
(* A call that raised left the controller in the session state; the next    *)
(* message calls stream on it again.                                        *)
StreamBegin(t) ==
    /\ pc \in { "idle", "done", "raised" }
    /\ turns' = turns + 1
    /\ user_raw' = t
    /\ u' = soften(t)
    /\ memory' = Append(memory, HumanMessage(soften(t)))
    /\ startPhase' = phase
    /\ startHw' = hw_assigned
    /\ sel' = <<>>
    /\ reply' = <<>>
    /\ chain' = "none"
    /\ calls' = <<>>
    /\ ret' = <<>>
    /\ resolved' = "none"
    /\ pc' = "resolve"
    /\ UNCHANGED << session, config, homeworkLog >>

(* InterceptHomework with the decline test made before the acknowledgment  *)
(* test                                                                     *)
InterceptHomeworkDeclineFirst ==
    /\ pc = "resolve"
    /\ phase = "homework" /\ hw_assigned
    /\ LET low == lower(u)
       IN  phase' = IF AnyTokenIn(decline_tokens, low)
                       /\ Contains(low, WordExercise)
                    THEN "technique"
                    ELSE IF AnyTokenIn(ack_tokens, low) THEN "closing"
                         ELSE phase
    /\ pc' = "dispatch"
    /\ UNCHANGED << hw_assigned, memory, sel, reply, chain, calls, ret,
                    resolved, locals, config,
                    homeworkLog >>

(* InterceptHomework with the test for "exercise" left out *)
InterceptHomeworkAnyDecline ==
    /\ pc = "resolve"
    /\ phase = "homework" /\ hw_assigned
    /\ LET low == lower(u)
       IN  phase' = IF AnyTokenIn(ack_tokens, low) THEN "closing"
                    ELSE IF AnyTokenIn(decline_tokens, low) THEN "technique"
                         ELSE phase
    /\ pc' = "dispatch"
    /\ UNCHANGED << hw_assigned, memory, sel, reply, chain, calls, ret,
                    resolved, locals, config,
                    homeworkLog >>

(* InterceptHomework with the decline test left out: "exercise" alone      *)
(* moves to technique                                                       *)
InterceptHomeworkExerciseOnly ==
    /\ pc = "resolve"
    /\ phase = "homework" /\ hw_assigned
    /\ LET low == lower(u)
       IN  phase' = IF AnyTokenIn(ack_tokens, low) THEN "closing"
                    ELSE IF Contains(low, WordExercise) THEN "technique"
                         ELSE phase
    /\ pc' = "dispatch"
    /\ UNCHANGED << hw_assigned, memory, sel, reply, chain, calls, ret,
                    resolved, locals, config,
                    homeworkLog >>

(* InterceptHomework entered on the phase alone, hw_assigned not tested *)
InterceptHomeworkIgnoresFlag ==
    /\ pc = "resolve"
    /\ phase = "homework"
    /\ LET low == lower(u)
       IN  phase' = IF AnyTokenIn(ack_tokens, low) THEN "closing"
                    ELSE IF AnyTokenIn(decline_tokens, low)
                            /\ Contains(low, WordExercise)
                         THEN "technique"
                         ELSE phase
    /\ pc' = "dispatch"
    /\ UNCHANGED << hw_assigned, memory, sel, reply, chain, calls, ret,
                    resolved, locals, config,
                    homeworkLog >>

Submit(t) == turns < MaxTurns /\ StreamBegin(t)

(* the same, for the longer conversations over fewer texts *)
SubmitLong(t) == turns < MaxLongTurns /\ StreamBegin(t)

(* Waiting on the homework acknowledgment: no model call. *)
InterceptHomework ==
    /\ pc = "resolve"
    /\ phase = "homework" /\ hw_assigned
    /\ LET low == lower(u)
       IN  phase' = IF AnyTokenIn(ack_tokens, low) THEN "closing"
                    ELSE IF AnyTokenIn(decline_tokens, low)
                            /\ Contains(low, WordExercise)
                         THEN "technique"
                         ELSE phase
    /\ pc' = "dispatch"
    /\ UNCHANGED << hw_assigned, memory, sel, reply, chain, calls, ret,
                    resolved, locals, config,
                    homeworkLog >>

(* SelectPhaseReturn with the reply lower-cased but not stripped *)
SelectPhaseReturnNoStrip(r) ==
    /\ pc = "resolve"
    /\ ~(phase = "homework" /\ hw_assigned)
    /\ calls' = Append(calls, Call("phase_selector"))
    /\ reply' = <<r>>
    /\ sel' = << lower(r) >>
    /\ pc' = "classified"
    /\ UNCHANGED << session, memory, chain, ret, resolved, locals, config,
                    homeworkLog >>

(* phase_selector.predict(...).strip().lower() returns *)
SelectPhaseReturn(r) ==
    /\ pc = "resolve"
    /\ ~(phase = "homework" /\ hw_assigned)
    /\ calls' = Append(calls, Call("phase_selector"))
    /\ reply' = <<r>>
    /\ sel' = << lower(strip(r)) >>
    /\ pc' = "classified"
    /\ UNCHANGED << session, memory, chain, ret, resolved, locals, config,
                    homeworkLog >>

(* SelectPhaseRaise with the exception caught and the call made again *)
SelectPhaseRaiseRetry ==
    /\ pc = "resolve"
    /\ ~(phase = "homework" /\ hw_assigned)
    /\ Len(calls) < 2
    /\ calls' = Append(calls, Call("phase_selector"))
    /\ pc' = "resolve"
    /\ UNCHANGED << session, memory, sel, reply, chain, ret, resolved,
                    locals, config,
                    homeworkLog >>

(* phase_selector.predict raises: the exception leaves stream *)
SelectPhaseRaise ==
    /\ pc = "resolve"
    /\ ~(phase = "homework" /\ hw_assigned)
    /\ calls' = Append(calls, Call("phase_selector"))
    /\ pc' = "raised"
    /\ UNCHANGED << session, memory, sel, reply, chain, ret, resolved,
                    locals, config,
                    homeworkLog >>

(* if sel in mapping: self.phase = mapping[sel] *)
MapPhase ==
    /\ pc = "classified"
    /\ phase' = IF sel[1] \in DOMAIN mapping THEN mapping[sel[1]] ELSE phase
    /\ pc' = "mapped"
    /\ UNCHANGED << hw_assigned, memory, sel, reply, chain, calls, ret,
                    resolved, locals, config,
                    homeworkLog >>

(* if self.phase != "homework": self.hw_assigned = False *)
ResetHomeworkFlag ==
    /\ pc = "mapped"
    /\ hw_assigned' = IF phase # "homework" THEN FALSE ELSE hw_assigned
    /\ pc' = "dispatch"
    /\ UNCHANGED << phase, memory, sel, reply, chain, calls, ret, resolved,
                    locals, config,
                    homeworkLog >>

(* homeworkLog after a turn resolved to a phase other than homework *)
LogLeft(log) ==
    IF log = <<>> THEN log
    ELSE IF log[Len(log)] = "left" THEN log ELSE Append(log, "left")

(* homeworkLog after predict of chain c ended (how: "returned", "raised") *)
LogEnded(log, c, how) == IF c = "homework_chain" THEN Append(log, how) ELSE log

Phases == { "agenda", "exploration", "technique", "homework", "closing" }

(* DispatchChain with  if not self.hw_assigned  left out: the homework      *)
(* chain is called also while waiting                                      *)
DispatchChainReissues ==
    /\ pc = "dispatch"
    /\ phase \in Phases
    /\ resolved' = phase
    /\ hw_assigned' = IF phase = "technique" THEN FALSE ELSE hw_assigned
    /\ chain' = ChainOf(phase)
    /\ calls' = Append(calls, Call(ChainOf(phase)))
    /\ pc' = "calling"
    /\ homeworkLog' = IF phase = "homework" THEN homeworkLog
                      ELSE LogLeft(homeworkLog)
    /\ UNCHANGED << phase, memory, sel, reply, ret, locals, config >>

(* DispatchChain with  self.hw_assigned = False  left out for technique *)
DispatchChainKeepsFlag ==
    /\ pc = "dispatch"
    /\ phase \in Phases
    /\ ~(phase = "homework" /\ hw_assigned)
    /\ resolved' = phase
    /\ chain' = ChainOf(phase)
    /\ calls' = Append(calls, Call(ChainOf(phase)))
    /\ pc' = "calling"
    /\ homeworkLog' = IF phase = "homework" THEN homeworkLog
                      ELSE LogLeft(homeworkLog)
    /\ UNCHANGED << session, memory, sel, reply, ret, locals, config >>

(* Dispatch to the chain of the phase, up to the call of predict. *)
DispatchChain ==
    /\ pc = "dispatch"
    /\ phase \in Phases
    /\ ~(phase = "homework" /\ hw_assigned)
    /\ resolved' = phase
    /\ hw_assigned' = IF phase = "technique" THEN FALSE ELSE hw_assigned
    /\ chain' = ChainOf(phase)
    /\ calls' = Append(calls, Call(ChainOf(phase)))
    /\ pc' = "calling"
    /\ homeworkLog' = IF phase = "homework" THEN homeworkLog
                      ELSE LogLeft(homeworkLog)
    /\ UNCHANGED << phase, memory, sel, reply, ret, locals, config >>

(* The branches of the dispatch that return a literal. *)
DispatchLiteral ==
    /\ pc = "dispatch"
    /\ ~(phase \in Phases) \/ (phase = "homework" /\ hw_assigned)
    /\ resolved' = phase
    /\ ret' = IF phase = "homework" THEN <<WaitingPrompt>>
              ELSE <<FallbackPrompt>>
    /\ pc' = "done"
    /\ homeworkLog' = IF phase = "homework" THEN homeworkLog
                      ELSE LogLeft(homeworkLog)
    /\ UNCHANGED << session, memory, sel, reply, chain, calls, locals,
                    config >>

(* ChainReturn with  self.hw_assigned = True  left out after the homework   *)
(* chain                                                                    *)
ChainReturnFlagNotSet(out) ==
    /\ pc = "calling"
    /\ memory' = memory \o << HumanMessage(u), AIMessage(out) >>
    /\ ret' = <<out>>
    /\ IF chain = "closing_chain"
       THEN /\ phase' = "agenda"
            /\ pc' = "closing_reset"
            /\ UNCHANGED hw_assigned
       ELSE /\ pc' = "done"
            /\ UNCHANGED << phase, hw_assigned >>
    /\ homeworkLog' = LogEnded(homeworkLog, chain, "returned")
    /\ UNCHANGED << sel, reply, chain, calls, resolved, locals, config >>

(* The chain's predict returns out: the chain saves the exchange to its     *)
(* memory, and stream runs on to its return.                                *)
ChainReturn(out) ==
    /\ pc = "calling"
    /\ memory' = memory \o << HumanMessage(u), AIMessage(out) >>
    /\ ret' = <<out>>
    /\ IF chain = "closing_chain"
       THEN /\ phase' = "agenda"
            /\ pc' = "closing_reset"
            /\ UNCHANGED hw_assigned
       ELSE /\ hw_assigned' = IF chain = "homework_chain" THEN TRUE
                              ELSE hw_assigned
            /\ pc' = "done"
            /\ UNCHANGED phase
    /\ homeworkLog' = LogEnded(homeworkLog, chain, "returned")
    /\ UNCHANGED << sel, reply, chain, calls, resolved, locals, config >>

(* the chain's predict raises: the exception leaves stream *)
ChainRaise ==
    /\ pc = "calling"
    /\ pc' = "raised"
    /\ homeworkLog' = LogEnded(homeworkLog, chain, "raised")
    /\ UNCHANGED << session, memory, sel, reply, chain, calls, ret, resolved,
                    locals, config >>

(* FinishClosing that also clears the transcript *)
FinishClosingClearsMemory ==
    /\ pc = "closing_reset"
    /\ hw_assigned' = FALSE
    /\ memory' = <<>>
    /\ pc' = "done"
    /\ UNCHANGED << phase, sel, reply, chain, calls, ret, resolved,
                    locals, config,
                    homeworkLog >>

(* FinishClosing with  self.hw_assigned = False  left out *)
FinishClosingKeepsFlag ==
    /\ pc = "closing_reset"
    /\ pc' = "done"
    /\ UNCHANGED << session, memory, sel, reply, chain, calls, ret, resolved,
                    locals, config,
                    homeworkLog >>

(* self.hw_assigned = False; return out   (after the closing chain) *)
FinishClosing ==
    /\ pc = "closing_reset"
    /\ hw_assigned' = FALSE
    /\ pc' = "done"
    /\ UNCHANGED << phase, memory, sel, reply, chain, calls, ret, resolved,
                    locals, config,
                    homeworkLog >>

Next ==
    \/ \E t \in Texts : Submit(t)
    \/ InterceptHomework
    \/ \E r \in Replies : SelectPhaseReturn(r)
    \/ SelectPhaseRaise
    \/ MapPhase
    \/ ResetHomeworkFlag
    \/ DispatchChain
    \/ DispatchLiteral
    \/ \E out \in Outputs : ChainReturn(out)
    \/ ChainRaise
    \/ FinishClosing

Spec == Init /\ [][Next]_vars

(* Longer conversations, over three texts (acknowledgment, decline of the  *)
(* exercise, neither) and the replies that name a phase or none.           *)
LongTexts == { TextThanksWillTry, TextNoNotThatExercise, TextHmmNotNow }

LongReplies == { ReplyAgenda, ReplyHomework, ReplyClosing, ReplyBanana }

LongOutputs == { OutputLetsBegin }

NextLong ==
    \/ \E t \in LongTexts : SubmitLong(t)
    \/ InterceptHomework
    \/ \E r \in LongReplies : SelectPhaseReturn(r)
    \/ SelectPhaseRaise
    \/ MapPhase
    \/ ResetHomeworkFlag
    \/ DispatchChain
    \/ DispatchLiteral
    \/ \E out \in LongOutputs : ChainReturn(out)
    \/ ChainRaise
    \/ FinishClosing

SpecLong == Init /\ [][NextLong]_vars

(* the same, from the start of the process *)
NextStartup ==
    \/ Construct
    \/ ConstructRaise
    \/ Next

SpecStartup == InitStartup /\ [][NextStartup]_vars

(* ------------------------------------------------------------------------ *)
(* Properties.                                                              *)
(* ------------------------------------------------------------------------ *)

(* the chains called so far by the running call of stream, in order *)
ChainsCalled == [i \in 1..Len(calls) |-> calls[i].chain]

TemplateChains ==
    { "agenda_chain", "explore_chain", "technique_chain", "homework_chain",
      "closing_chain" }

CountCalls(S) == Cardinality({ i \in 1..Len(calls) : calls[i].chain \in S })

(* the running call began in the homework-wait state *)
StartedWaiting == pc # "idle" /\ startPhase = "homework" /\ startHw

(* the softened, lower-cased text holds one of the acknowledgment tokens *)
HoldsAck ==
    \E tok \in { TokYes, TokOkay, TokSure, TokWill, TokGotIt, TokThanks } :
        Contains(lower(u), tok)

(* C1: in every state, also inside a turn, hw_assigned implies that the     *)
(* phase is homework.                                                       *)
C1_HwAssignedOnlyInHomework == hw_assigned => phase = "homework"

(* C2: a turn that begins waiting on homework, with a text that holds an    *)
(* acknowledgment token, resolves to closing, dispatches the closing chain  *)
(* and never calls the phase selector.                                      *)
C2_AckResolvesToClosing ==
    (StartedWaiting /\ HoldsAck) =>
        /\ CountCalls({"phase_selector"}) = 0
        /\ pc = "dispatch" => phase = "closing"
        /\ resolved # "none" => resolved = "closing"
        /\ pc \in { "calling", "closing_reset", "done", "raised" } =>
               ChainsCalled = << "closing_chain" >>

C2_Witness ==
    /\ StartedWaiting
    /\ user_raw = TextThanksWillTry
    /\ pc = "done"
    /\ resolved = "closing"
    /\ ChainsCalled = << "closing_chain" >>

(* C3 as stated: "no thanks, not that exercise" while waiting on homework   *)
(* resolves to technique, and hw_assigned is False after the turn.          *)
C3_NoThanksResolvesToTechnique ==
    (StartedWaiting /\ user_raw = TextNoThanksNotThatExercise /\ pc = "done")
        => (resolved = "technique" /\ ~hw_assigned)

(* C3 amended: "no thanks, not that exercise" holds the acknowledgment      *)
(* token "thanks", which is checked first: the turn resolves to closing,    *)
(* and hw_assigned is False once stream has returned. A text with a decline *)
(* token and "exercise" and no acknowledgment token ("No, not that          *)
(* exercise") resolves to technique, and hw_assigned is False from the      *)
(* dispatch on.                                                             *)
C3_NoThanksResolvesToClosing ==
    /\ (StartedWaiting /\ user_raw = TextNoThanksNotThatExercise) =>
          /\ pc = "dispatch" => phase = "closing"
          /\ resolved # "none" => resolved = "closing"
          /\ pc = "done" => (phase = "agenda" /\ ~hw_assigned)
    /\ (StartedWaiting /\ user_raw = TextNoNotThatExercise) =>
          /\ pc = "dispatch" => phase = "technique"
          /\ resolved # "none" => (resolved = "technique" /\ ~hw_assigned)
          /\ pc \in { "done", "raised" } => phase = "technique"

C3_Witness ==
    /\ StartedWaiting
    /\ user_raw = TextNoThanksNotThatExercise
    /\ pc = "done"
    /\ resolved = "closing"
    /\ ~hw_assigned

(* C4 as stated: "hmm not sure" while waiting on homework leaves the phase  *)
(* homework, returns the waiting prompt and makes no generation call.       *)
C4_HmmNotSureKeepsWaiting ==
    (StartedWaiting /\ user_raw = TextHmmNotSure /\ pc \in {"done", "raised"})
        => (phase = "homework" /\ ret = <<WaitingPrompt>> /\ calls = <<>>)

(* C4 amended: "hmm not sure" holds the acknowledgment token "sure": the    *)
(* turn resolves to closing and calls the closing chain, and no other. A    *)
(* text with a decline token, no acknowledgment token and no "exercise"     *)
(* ("hmm not now") leaves the phase homework and hw_assigned True, returns  *)
(* the waiting prompt and makes no generation call.                         *)
C4_HmmNotSureResolvesToClosing ==
    /\ (StartedWaiting /\ user_raw = TextHmmNotSure) =>
          /\ resolved # "none" => resolved = "closing"
          /\ pc \in { "calling", "closing_reset", "done", "raised" } =>
                 ChainsCalled = << "closing_chain" >>
    /\ (StartedWaiting /\ user_raw = TextHmmNotNow) =>
          /\ phase = "homework" /\ hw_assigned
          /\ calls = <<>>
          /\ pc # "raised"
          /\ pc = "done" => ret = <<WaitingPrompt>>

C4_Witness ==
    /\ StartedWaiting
    /\ user_raw = TextHmmNotSure
    /\ pc = "done"
    /\ resolved = "closing"
    /\ ChainsCalled = << "closing_chain" >>

(* the running call began in phase homework with hw_assigned False *)
StartedUnassigned == pc # "idle" /\ startPhase = "homework" /\ ~startHw

(* C5 as stated: a turn that begins in phase homework with hw_assigned      *)
(* False makes exactly one generation call, to the homework chain, and      *)
(* returns with hw_assigned True.                                           *)
C5_OnlyHomeworkChainCalled ==
    (StartedUnassigned /\ pc = "done")
        => (ChainsCalled = << "homework_chain" >> /\ hw_assigned)

(* C5 amended: a turn that begins in phase homework with hw_assigned False  *)
(* calls the phase selector first. The turn resolves to homework exactly    *)
(* when the reply is "homework" or no recognised name; then exactly one     *)
(* template call is made, to the homework chain, and hw_assigned is True    *)
(* when stream returns.                                                     *)
C5_HomeworkChainAfterSelector ==
    StartedUnassigned =>
        /\ calls # <<>> => calls[1].chain = "phase_selector"
        /\ pc = "dispatch" => ~hw_assigned
        /\ resolved # "none" =>
               (resolved = "homework" <=>
                    sel[1] \notin { KeyAgenda, KeyExplore, KeyExploration,
                                    KeyTechnique, KeyClosing })
        /\ (pc = "done" /\ resolved = "homework") =>
               /\ ChainsCalled = << "phase_selector", "homework_chain" >>
               /\ hw_assigned
               /\ phase = "homework"
               /\ ret # <<WaitingPrompt>>

C5_Witness ==
    /\ StartedUnassigned
    /\ pc = "done"
    /\ resolved = "homework"
    /\ ChainsCalled = << "phase_selector", "homework_chain" >>
    /\ hw_assigned

(* the session reset that ends Closing, as a function of the session state *)
SessionReset(s) == [s EXCEPT !.phase = "agenda", !.hw_assigned = FALSE]

CurrentSession == [phase |-> phase, hw_assigned |-> hw_assigned]

(* C6 as stated: a turn that resolves to closing, once the closing chain    *)
(* has returned, leaves phase agenda and hw_assigned False, and no turn     *)
(* ever ends with phase closing.                                            *)
C6_NoTurnEndsInClosing ==
    /\ (pc = "done" /\ resolved = "closing") =>
           (phase = "agenda" /\ ~hw_assigned)
    /\ pc \in { "done", "raised" } => phase # "closing"

(* C6 amended: a turn that resolves to closing, once the closing chain has  *)
(* returned, leaves phase agenda and hw_assigned False whatever they were   *)
(* before; the reset applied again changes nothing; so no turn in which     *)
(* stream returns ends with phase closing. A turn in which the closing      *)
(* chain raises ends with phase closing.                                    *)
C6_ClosingResetsSession ==
    /\ (pc = "done" /\ resolved = "closing") =>
           /\ phase = "agenda" /\ ~hw_assigned
           /\ SessionReset(CurrentSession) = CurrentSession
    /\ pc = "done" => phase # "closing"
    /\ (pc = "raised" /\ chain = "closing_chain") => phase = "closing"

C6_Witness ==
    /\ pc = "done"
    /\ resolved = "closing"
    /\ startPhase = "homework" /\ startHw
    /\ phase = "agenda" /\ ~hw_assigned

(* the phase each reply of the phase selector stands for; "" for none *)
PhaseNamed(r) ==
    CASE r = ReplyAgenda      -> "agenda"
      [] r = ReplyExplore     -> "exploration"
      [] r = ReplyExploration -> "exploration"
      [] r = ReplyTechnique   -> "technique"
      [] r = ReplyHomework    -> "homework"
      [] r = ReplyClosing     -> "closing"
      [] OTHER                -> ""

(* C7: in the model-delegated branch the reply, stripped and lower-cased,   *)
(* is mapped to its phase ("explore" and "exploration" to exploration);     *)
(* after any other reply the phase dispatched on is the phase the turn      *)
(* began with, and the reply raises no error.                               *)
C7_ReplyMapping ==
    reply # <<>> =>
        LET expected == IF PhaseNamed(reply[1]) = "" THEN startPhase
                        ELSE PhaseNamed(reply[1])
        IN  /\ pc \in { "mapped", "dispatch" } => phase = expected
            /\ resolved # "none" => resolved = expected
            /\ pc = "raised" => chain # "none"

C7_Witness ==
    /\ reply = <<ReplyBanana>>
    /\ startPhase = "exploration"
    /\ pc = "done"
    /\ resolved = "exploration"

(* what soften is to make of each text a user may type *)
Softened(t) ==
    CASE t = TextHopelessDepressed -> SoftHopelessDepressed
      [] t = TextUpperHopeless     -> SoftUpperHopeless
      [] OTHER                     -> t

(* the messages the running call has added to the memory *)
AddedByTurn ==
    IF pc \in { "closing_reset", "done" } /\ chain # "none"
    THEN << HumanMessage(Softened(user_raw)), HumanMessage(Softened(user_raw)),
            AIMessage(ret[1]) >>
    ELSE << HumanMessage(Softened(user_raw)) >>

(* C8: the text appended to the memory and passed as user_input to the      *)
(* phase selector and to the dispatched chain is the softened text:         *)
(* "hopeless" and "depressed" replaced whatever their case, any other text  *)
(* unchanged; the raw text reaches neither the memory nor a call.           *)
C8_SoftenedTextForwarded ==
    pc # "idle" =>
        /\ u = Softened(user_raw)
        /\ Len(memory) >= Len(AddedByTurn)
        /\ SubSeq(memory, Len(memory) - Len(AddedByTurn) + 1, Len(memory))
               = AddedByTurn
        /\ \A i \in 1..Len(calls) : calls[i].user_input = Softened(user_raw)
        /\ \A i \in 1..Len(memory) :
               memory[i].role = "human" =>
                   /\ memory[i].text \in { Softened(t) : t \in Texts }
                   /\ memory[i].text \notin
                          { TextHopelessDepressed, TextUpperHopeless }

C8_Witness ==
    /\ pc = "done"
    /\ user_raw = TextHopelessDepressed
    /\ u = SoftHopelessDepressed
    /\ Len(calls) = 2
    /\ memory[Len(memory) - 1] = HumanMessage(SoftHopelessDepressed)

(* C9: an empty reply of the phase selector is surfaced as a failure: the   *)
(* turn neither dispatches on the old phase nor returns text.               *)
C9_EmptyReplySurfaced ==
    (reply # <<>> /\ reply[1] \in { <<>>, ReplyBlank }) =>
        (resolved = "none" /\ chain = "none" /\ ret = <<>>)

(* C10: a call that raises ends the turn with the exception, no text is     *)
(* returned, and nothing is retried: the phase selector is called at most   *)
(* once in a turn and at most one template chain is called.                 *)
C10_FailurePropagatesNoRetry ==
    /\ CountCalls({"phase_selector"}) <= 1
    /\ CountCalls(TemplateChains) <= 1
    /\ Len(calls) <= 2
    /\ pc = "raised" => (ret = <<>> /\ calls # <<>>)
    /\ ret # <<>> => pc \in { "closing_reset", "done" }

C10_Witness ==
    /\ pc = "raised"
    /\ ChainsCalled = << "phase_selector", "agenda_chain" >>
    /\ ret = <<>>


(* C11: with OPENAI_API_KEY unset or empty, the construction fails before   *)
(* any attribute of the controller exists (no phase, hw_assigned, memory or *)
(* chain), and no turn is ever processed.                                   *)
C11_NoControllerWithoutKey ==
    key \in { <<>>, << <<>> >> } =>
        /\ attrs = {}
        /\ pc \in { "start", "config_error" }
        /\ turns = 0
        /\ memory = <<>>
        /\ calls = <<>>
        /\ ret = <<>>

C11_Witness ==
    /\ key = << <<>> >>
    /\ pc = "config_error"
    /\ attrs = {}
    /\ turns = 0

(* the three facts about each text a user may type, softened and           *)
(* lower-cased: it holds an acknowledgment token, a decline token, the     *)
(* word "exercise"                                                         *)
Facts(t) ==
    CASE t = TextThanksWillTry           -> << TRUE,  FALSE, FALSE >>
      [] t = TextNoThanksNotThatExercise -> << TRUE,  TRUE,  TRUE  >>
      [] t = TextHmmNotSure              -> << TRUE,  TRUE,  FALSE >>
      [] t = TextNoNotThatExercise       -> << FALSE, TRUE,  TRUE  >>
      [] t = TextHmmNotNow               -> << FALSE, TRUE,  FALSE >>
      [] t = TextThatExercise            -> << FALSE, FALSE, TRUE  >>
      [] t = TextHopelessDepressed       -> << FALSE, FALSE, FALSE >>
      [] t = TextUpperHopeless           -> << FALSE, FALSE, FALSE >>
      [] t = TextHello                   -> << FALSE, FALSE, FALSE >>

(* C12: in the homework-wait state the phase is resolved from the three    *)
(* facts in this order: acknowledgment -> closing; else decline and         *)
(* "exercise" -> technique; else homework, with hw_assigned still True.     *)
(* The acknowledgment wins when both match.                                 *)
C12_InterceptionOrder ==
    StartedWaiting =>
        LET f == Facts(user_raw)
            expected == IF f[1] THEN "closing"
                        ELSE IF f[2] /\ f[3] THEN "technique"
                        ELSE "homework"
        IN  /\ pc = "dispatch" => (phase = expected /\ hw_assigned)
            /\ resolved # "none" => resolved = expected
            /\ expected = "homework" =>
                   (phase = "homework" /\ hw_assigned /\ pc # "raised")

C12_Witness ==
    /\ StartedWaiting
    /\ user_raw = TextThatExercise
    /\ pc = "done"
    /\ resolved = "homework"
    /\ hw_assigned

(* C13: the phase selector is called in a turn exactly when the turn did    *)
(* not begin in the homework-wait state; then it is called once, before     *)
(* any template chain, with the softened message already in the memory.     *)
C13_SelectorCalledUnlessWaiting ==
    /\ pc = "resolve" => calls = <<>>
    /\ pc \notin { "idle", "resolve" } =>
           /\ CountCalls({"phase_selector"}) =
                  (IF startPhase = "homework" /\ startHw THEN 0 ELSE 1)
           /\ \A i \in 1..Len(calls) :
                  /\ calls[i].chain = "phase_selector" => i = 1
                  /\ calls[i].history # <<>>
                  /\ calls[i].history[Len(calls[i].history)] = HumanMessage(u)

C13_Witness ==
    /\ pc = "done"
    /\ startPhase = "homework" /\ ~startHw
    /\ ChainsCalled = << "phase_selector", "agenda_chain" >>

(* a turn that began waiting on homework and stayed in homework returns the *)
(* waiting prompt and makes no generation call                              *)
WaitingTurnsCallNothing ==
    (StartedWaiting /\ resolved = "homework") =>
        (pc = "done" /\ ret = <<WaitingPrompt>> /\ calls = <<>>
            /\ phase = "homework" /\ hw_assigned)

(* C14 as stated: between one call of homework_chain.predict and the next   *)
(* there is a turn that resolved to another phase, and the turns that stay  *)
(* waiting in homework return the waiting prompt without a generation call. *)
C14_NoHomeworkCallTwiceInARow ==
    /\ \A i \in 1..Len(homeworkLog) :
           i > 1 => ("left" \in { homeworkLog[i - 1], homeworkLog[i] })
    /\ WaitingTurnsCallNothing

(* C14 amended: between a call of homework_chain.predict that returned and  *)
(* the next call of it there is a turn that resolved to another phase       *)
(* (after a call that raised, hw_assigned is False and the next turn may    *)
(* call it again); the turns that stay waiting in homework return the       *)
(* waiting prompt without a generation call.                                *)
C14_NoHomeworkCallAfterReturned ==
    /\ \A i \in 1..Len(homeworkLog) :
           (i > 1 /\ homeworkLog[i - 1] = "returned") => homeworkLog[i] = "left"
    /\ WaitingTurnsCallNothing

C14_Witness ==
    /\ homeworkLog = << "returned", "left", "returned" >>
    /\ pc = "done"
    /\ chain = "homework_chain"
    /\ startPhase = "technique"
    /\ hw_assigned

(* C15: after any turns, texts and replies the phase is one of the five     *)
(* phases, so the fallback literal is never returned.                       *)
C15_PhaseIsOneOfFive ==
    /\ phase \in { "agenda", "exploration", "technique", "homework",
                    "closing" }
    /\ resolved # "none" =>
           resolved \in { "agenda", "exploration", "technique", "homework",
                          "closing" }
    /\ ret # <<FallbackPrompt>>

C15_Witness ==
    /\ pc = "done"
    /\ turns = 2
    /\ reply = << <<>> >>
    /\ startPhase = "technique"
    /\ phase = "technique"
    /\ ret # <<>>

(* the chain of each phase *)
ChainNamed ==
    { << "agenda", "agenda_chain" >>, << "exploration", "explore_chain" >>,
      << "technique", "technique_chain" >>, << "homework", "homework_chain" >>,
      << "closing", "closing_chain" >> }

(* C16: a turn that calls a template calls the one of the phase it resolved *)
(* to, and stream returns what it generated; the dispatch to agenda or      *)
(* exploration changes neither phase nor hw_assigned, the dispatch to       *)
(* technique leaves the phase and leaves hw_assigned False.                 *)
C16_DispatchMatchesPhase ==
    /\ [](chain # "none" =>
            /\ << resolved, chain >> \in ChainNamed
            /\ ChainsCalled[Len(calls)] = chain)
    /\ []((pc = "done" /\ chain # "none") =>
            /\ ret[1] \in Outputs
            /\ memory[Len(memory)] = AIMessage(ret[1]))
    /\ []((pc \in { "done", "raised" }
              /\ resolved \in { "agenda", "exploration", "technique" }) =>
            (phase = resolved /\ ~hw_assigned))
    /\ [][(pc \in { "dispatch", "calling" }
              /\ resolved' \in { "agenda", "exploration" }) =>
            (phase' = phase /\ hw_assigned' = hw_assigned)]_vars
    /\ [][(pc \in { "dispatch", "calling" } /\ resolved' = "technique") =>
            (phase' = phase /\ ~hw_assigned')]_vars

C16_Witness ==
    /\ pc = "done"
    /\ startPhase = "homework" /\ startHw
    /\ resolved = "technique"
    /\ chain = "technique_chain"
    /\ ret = <<OutputTakeCare>>
    /\ phase = "technique" /\ ~hw_assigned

(* no stream call is running and the last one, if any, returned *)
AtTurnBoundary == pc \in { "idle", "done" }

(* C17: in the initial state and after every stream call that returned,     *)
(* phase is homework exactly when hw_assigned is True and phase is not      *)
(* closing; so a turn that starts there in phase homework takes the         *)
(* homework-wait interception and does not call the classifier.             *)
C17_BoundaryHomeworkIffAssigned ==
    /\ [](AtTurnBoundary =>
            /\ (phase = "homework") <=> hw_assigned
            /\ phase # "closing")
    /\ [][(AtTurnBoundary /\ pc' = "resolve" /\ phase = "homework") =>
            (startPhase' = "homework" /\ startHw')]_vars
    /\ []((pc \notin { "idle", "resolve" } /\ startPhase = "homework"
              /\ startHw) =>
            /\ sel = <<>>
            /\ "phase_selector" \notin { calls[i].chain : i \in 1..Len(calls) })

C17_Witness ==
    /\ pc = "done"
    /\ turns = 2
    /\ startPhase = "homework" /\ startHw
    /\ user_raw = TextHello
    /\ calls = <<>>
    /\ phase = "homework" /\ hw_assigned

(* C18: in the state left when a generation call raised, from which the     *)
(* next stream call starts, hw_assigned implies that the phase is homework. *)
C18_RaisedStateKeepsInvariant ==
    pc = "raised" => (hw_assigned => phase = "homework")

(* C19: the transcript only grows: each step keeps the entries it had,      *)
(* every stream call appends the softened user message before its first     *)
(* generation call, each call is handed the transcript as it then stood,    *)
(* and the reset after closing changes phase and hw_assigned only.          *)
C19_TranscriptAppendOnly ==
    /\ [][/\ Len(memory') >= Len(memory)
           /\ SubSeq(memory', 1, Len(memory)) = memory]_vars
    /\ [][pc' = "resolve" =>
            (/\ calls' = <<>>
             /\ memory' = Append(memory, HumanMessage(Softened(user_raw'))))]_vars
    /\ [](\A i \in 1..Len(calls) :
            /\ Len(calls[i].history) \in 1..Len(memory)
            /\ calls[i].history = SubSeq(memory, 1, Len(calls[i].history))
            /\ calls[i].history[Len(calls[i].history)]
                   = HumanMessage(Softened(user_raw))
            /\ Len(calls[i].history) >= Len(memory) - 2)
    /\ [][pc = "closing_reset" =>
            (/\ memory' = memory
             /\ phase' = "agenda" /\ ~hw_assigned')]_vars

C19_Witness ==
    /\ pc = "done"
    /\ turns = 2
    /\ resolved = "closing"
    /\ phase = "agenda" /\ ~hw_assigned
    /\ Len(memory) = 6
    /\ memory[1] = HumanMessage(SoftHopelessDepressed)
    /\ memory[6] = AIMessage(OutputTakeCare)

================================================================================
